---- MODULE Spec2Model ----
(***************************************************************************)
(* Habit tracker (habit_tracker.py): the Habit entity (per-period          *)
(* completion, streak computation, dict serialization) and the             *)
(* HabitTracker collection with its JSON store.                            *)
(*                                                                         *)
(* A datetime is a record [ord, sec, us]: the proleptic Gregorian ordinal  *)
(* of its calendar date (date.toordinal(), 0001-01-01 = 1), the second of  *)
(* the day and the microsecond.  Two specifications share the module:      *)
(*   SpecHabit  one Habit object, its methods applied to bounded inputs;   *)
(*   Spec       one HabitTracker with its store.                           *)
(***************************************************************************)
EXTENDS Integers, Sequences, FiniteSets, TLC

VARIABLES
    h,        \* SpecHabit: the Habit object under test
    res,      \* SpecHabit: the last method call on h and what it returned
    habits,   \* Spec: HabitTracker.habits, a sequence of Habit records
    store,    \* Spec: the content of the data file, or NoFile
    now,      \* Spec: the reading of datetime.now()
    last,     \* Spec: the last tracker call and its outcome
    fuel      \* Spec: mutating calls still explored in this behaviour

vars == <<h, res, habits, store, now, last, fuel>>

habitVars == <<h, res>>
trackerVars == <<habits, store, now, last, fuel>>

----------------------------------------------------------------------------
(* Bounds of the model *)

\* longest completions sequence a Habit under test starts with
MaxLen == 3
\* number of consecutive periods (days or weeks) the test instants span
NumPeriods == 4
\* largest collection addHabit is explored on
MaxHabits == 2
\* mutating tracker calls explored after a construction that loaded a file
MaxOps == 4
\* mutating tracker calls explored after a construction that seeded
SeedOps == 1

----------------------------------------------------------------------------
(* Calendar: datetime.date arithmetic *)

IsLeap(y) == (y % 4 = 0) /\ ((y % 100 # 0) \/ (y % 400 = 0))

DaysInMonth(y, m) ==
    IF m = 2 THEN (IF IsLeap(y) THEN 29 ELSE 28)
    ELSE IF m \in {4, 6, 9, 11} THEN 30 ELSE 31

\* days of year y before the first day of month m
DaysBeforeMonth(y, m) ==
    <<0, 31, 59, 90, 120, 151, 181, 212, 243, 273, 304, 334>>[m]
    + (IF m > 2 /\ IsLeap(y) THEN 1 ELSE 0)

DaysBeforeYear(y) ==
    (y - 1) * 365 + ((y - 1) \div 4) - ((y - 1) \div 100) + ((y - 1) \div 400)

\* date(y, m, d).toordinal()
Ymd2ord(y, m, d) == DaysBeforeYear(y) + DaysBeforeMonth(y, m) + d

\* date.fromordinal(n) as <<year, month, day>>: the 400-, 100-, 4- and
\* 1-year cycles give the year, an estimate corrected by one the month
Ord2ymd(n) ==
    LET n400 == (n - 1) \div 146097
        r400 == (n - 1) % 146097
        n100 == r400 \div 36524
        r100 == r400 % 36524
        n4 == r100 \div 1461
        r4 == r100 % 1461
        n1 == r4 \div 365
        r1 == r4 % 365
        y == n400 * 400 + 1 + n100 * 100 + n4 * 4 + n1
        guess == (r1 + 50) \div 32
        m == IF DaysBeforeMonth(y, guess) > r1 THEN guess - 1 ELSE guess
    IN IF n1 = 4 \/ n100 = 4 THEN <<y - 1, 12, 31>>
       ELSE <<y, m, r1 - DaysBeforeMonth(y, m) + 1>>

weekdaySundayFirst(ord) == ord % 7

\* date.weekday(): Monday = 0 ... Sunday = 6
weekday(ord) == (ord + 6) % 7

DT(ord, sec, us) == [ord |-> ord, sec |-> sec, us |-> us]

\* the absent optional argument (no datetime has ordinal 0)
None == DT(0, 0, 0)

\* dt - timedelta(days=n)
MinusDays(dt, n) == [dt EXCEPT !.ord = @ - n]

\* dt.date()
date(dt) == dt.ord

DtGt(a, b) ==
    \/ a.ord > b.ord
    \/ a.ord = b.ord /\ a.sec > b.sec
    \/ a.ord = b.ord /\ a.sec = b.sec /\ a.us > b.us

\* a >= b on datetimes
DtGeq(a, b) ==
    \/ a.ord > b.ord
    \/ a.ord = b.ord /\ a.sec > b.sec
    \/ a.ord = b.ord /\ a.sec = b.sec /\ a.us >= b.us

\* the day the repository's tests fix as today: Monday 2024-01-15
Today == Ymd2ord(2024, 1, 15)

----------------------------------------------------------------------------
(* ISO-8601 text of a datetime, as the sequence of its numeric fields:     *)
(* YYYY-MM-DDTHH:MM:SS, followed by .ffffff only when microsecond # 0      *)

isoformatSeconds(dt) ==
    Ord2ymd(dt.ord)
        \o <<dt.sec \div 3600, (dt.sec % 3600) \div 60, dt.sec % 60>>

\* datetime.isoformat()
isoformat(dt) ==
    LET ymd == Ord2ymd(dt.ord)
        hms == <<dt.sec \div 3600, (dt.sec % 3600) \div 60, dt.sec % 60>>
    IN IF dt.us = 0 THEN ymd \o hms ELSE ymd \o hms \o <<dt.us>>

\* datetime.fromisoformat(s)
fromisoformat(s) ==
    DT(Ymd2ord(s[1], s[2], s[3]),
       s[4] * 3600 + s[5] * 60 + s[6],
       IF Len(s) = 7 THEN s[7] ELSE 0)

----------------------------------------------------------------------------
(* Habit *)

Periodicities == {"daily", "weekly"}

ValidPeriodicityAny(p) == TRUE

\* Habit.__init__ accepts the periodicity
ValidPeriodicity(p) == p \in Periodicities

\* Habit.__init__ with a valid periodicity; created_at None reads the clock
Habit(name, periodicity, created_at, completions, clock) ==
    [name |-> name,
     periodicity |-> periodicity,
     created_at |-> IF created_at = None THEN clock ELSE created_at,
     completions |-> completions]

\* Monday of dt's week, as a date
WeekStart(dt) == date(MinusDays(dt, weekday(date(dt))))

AlreadyCompletedSameInstant(hb, d) ==
    \E i \in 1..Len(hb.completions) : hb.completions[i] = d

AlreadyCompletedSameDate(hb, d) ==
    \E i \in 1..Len(hb.completions) : date(hb.completions[i]) = date(d)

AlreadyCompletedSinceStart(hb, d) ==
    \E i \in 1..Len(hb.completions) :
        DtGeq(hb.completions[i],
              DT(IF hb.periodicity = "daily" THEN date(d) ELSE WeekStart(d),
                 0, 0))

\* the already_completed flag of Habit.complete
AlreadyCompleted(hb, d) ==
    IF hb.periodicity = "daily"
    THEN \E i \in 1..Len(hb.completions) : date(hb.completions[i]) = date(d)
    ELSE \E i \in 1..Len(hb.completions) :
             WeekStart(hb.completions[i]) = WeekStart(d)

CompleteStampsCreated(hb, d) ==
    IF ~AlreadyCompleted(hb, d)
    THEN [hb EXCEPT !.completions = Append(@, d), !.created_at = d]
    ELSE hb

CompleteAlwaysAppend(hb, d) ==
    [hb EXCEPT !.completions = Append(@, d)]

\* Habit.complete(date), date already resolved against the clock
Complete(hb, d) ==
    IF ~AlreadyCompleted(hb, d)
    THEN [hb EXCEPT !.completions = Append(@, d)]
    ELSE hb

\* Habit.period_start(date)
period_start(hb, d) ==
    IF hb.periodicity = "daily"
    THEN DT(date(d), 0, 0)
    ELSE DT(date(MinusDays(d, weekday(date(d)))), 0, 0)

\* Habit.completed_in_period(date)
completed_in_period(hb, d) ==
    \E i \in 1..Len(hb.completions) :
        DtGeq(hb.completions[i], period_start(hb, d))

CountBackIgnoringGaps(done, cur, step) ==
    Cardinality({x \in done : x <= cur})

\* the while loops of Habit.streak: count the members of done met walking
\* back from cur in steps of step days, up to the first one missing
RECURSIVE CountBack(_, _, _)
CountBack(done, cur, step) ==
    IF cur \in done THEN 1 + CountBack(done, cur - step, step) ELSE 0

StreakAssumesSorted(hb, reference) ==
    LET n == Len(hb.completions)
        period(dt) == IF hb.periodicity = "daily" THEN date(dt)
                      ELSE date(dt) - weekday(date(dt))
        RECURSIVE back(_)
        back(i) ==
            IF i > 1 /\ period(hb.completions[i - 1]) =
                            period(hb.completions[i]) -
                                (IF hb.periodicity = "daily" THEN 1 ELSE 7)
            THEN 1 + back(i - 1) ELSE 1
    IN IF n = 0 THEN 0
       ELSE IF period(hb.completions[n]) # period(reference) THEN 0
       ELSE back(n)

\* Habit.streak(reference), reference already resolved against the clock
Streak(hb, reference) ==
    IF Len(hb.completions) = 0 THEN 0
    ELSE IF hb.periodicity = "daily"
    THEN LET completed_dates ==
                 {date(hb.completions[i]) : i \in 1..Len(hb.completions)}
             current_date == date(reference)
         IN IF current_date \notin completed_dates THEN 0
            ELSE CountBack(completed_dates, current_date, 1)
    ELSE LET completed_weeks ==
                 {date(hb.completions[i]) - weekday(date(hb.completions[i])) :
                      i \in 1..Len(hb.completions)}
             current_week == date(reference) - weekday(date(reference))
         IN IF current_week \notin completed_weeks THEN 0
            ELSE CountBack(completed_weeks, current_week, 7)

\* Habit.to_dict()
to_dict(hb) ==
    [name |-> hb.name,
     periodicity |-> hb.periodicity,
     created_at |-> isoformat(hb.created_at),
     completions |-> [i \in 1..Len(hb.completions) |->
                          isoformat(hb.completions[i])]]

from_dictFreshCreated(data) ==
    Habit(data.name,
          data.periodicity,
          None,
          [i \in 1..Len(data.completions) |->
               fromisoformat(data.completions[i])],
          None)

\* Habit.from_dict(data), for a record whose periodicity is valid
from_dict(data) ==
    Habit(data.name,
          data.periodicity,
          fromisoformat(data.created_at),
          [i \in 1..Len(data.completions) |->
               fromisoformat(data.completions[i])],
          None)

----------------------------------------------------------------------------
(* HabitTracker *)

\* the data file: absent, or holding a JSON list of habit dicts (data), or
\* opened for writing and left without a complete JSON document (torn)
NoFile == [exists |-> FALSE, torn |-> FALSE, data |-> <<>>]

saveAppend(st, hs) ==
    [exists |-> TRUE, torn |-> FALSE,
     data |-> st.data \o [i \in 1..Len(hs) |-> to_dict(hs[i])]]

\* HabitTracker.save(): the file is opened with "w", so what it held (st) is
\* replaced by the list of dicts of the whole collection
save(st, hs) ==
    [exists |-> TRUE, torn |-> FALSE,
     data |-> [i \in 1..Len(hs) |-> to_dict(hs[i])]]

\* the file after a save() that raised OSError: open(filename, "w") raised
\* and the file is as it was (st), or open had truncated the file and the
\* write of json.dump raised, which leaves no complete JSON document
saveFailed(st) ==
    {st, [exists |-> TRUE, torn |-> TRUE, data |-> <<>>]}

\* days before the clock reading at which the seed history starts
SeedDaysBack == 35
\* weeks of history each seeded habit gets
SeedWeeks == 4

\* gen_daily(weeks) and gen_weekly(weeks) of seed_data
gen_daily(base, weeks) ==
    [i \in 1..(weeks * 7) |-> MinusDays(base, -(i - 1))]

gen_weekly(base, weeks) ==
    [i \in 1..weeks |-> MinusDays(base, -((i - 1) * 7))]

\* the collection HabitTracker.seed_data() builds
seed_data(clock) ==
    LET base == MinusDays(clock, SeedDaysBack)
    IN <<Habit("Exercise", "daily", base, gen_daily(base, SeedWeeks), clock),
         Habit("Read", "daily", base, gen_daily(base, SeedWeeks), clock),
         Habit("Meditate", "daily", base, gen_daily(base, SeedWeeks), clock),
         Habit("Call Family", "weekly", base, gen_weekly(base, SeedWeeks),
               clock),
         Habit("Clean House", "weekly", base, gen_weekly(base, SeedWeeks),
               clock)>>

\* the collection HabitTracker.load() returns
load(st, clock) ==
    IF ~st.exists THEN seed_data(clock)
    ELSE [i \in 1..Len(st.data) |-> from_dict(st.data[i])]

storeAfterLoadUnsaved(st, clock) == st

\* the file after HabitTracker.load(): seed_data() saves what it built
storeAfterLoad(st, clock) ==
    IF ~st.exists THEN save(st, seed_data(clock)) ELSE st

\* self.habits[index] exists: Python accepts -n .. n-1 on a list of length n
ValidIndex(n, index) == -n <= index /\ index < n

\* the position (from 1) that self.habits[index] designates
Pos(n, index) == IF index < 0 THEN n + index + 1 ELSE index + 1

DeleteAtEnd(hs, pos) == SubSeq(hs, 1, Len(hs) - 1)

\* del self.habits[index]
DeleteAt(hs, pos) ==
    [i \in 1..(Len(hs) - 1) |-> IF i < pos THEN hs[i] ELSE hs[i + 1]]

filterOthers(hs, period) ==
    LET RECURSIVE go(_)
        go(i) ==
            IF i > Len(hs) THEN <<>>
            ELSE (IF hs[i].periodicity # period THEN <<i>> ELSE <<>>)
                     \o go(i + 1)
    IN go(1)

\* the positions of the habits that habits_by_periodicity(period) returns:
\* list(filter(lambda h: h.periodicity == period, self.habits))
filterByPeriodicity(hs, period) ==
    LET RECURSIVE go(_)
        go(i) ==
            IF i > Len(hs) THEN <<>>
            ELSE (IF hs[i].periodicity = period THEN <<i>> ELSE <<>>)
                     \o go(i + 1)
    IN go(1)

reduceKeepLater(hs, acc, i, clock) ==
    LET RECURSIVE go(_, _)
        go(a, j) ==
            IF j > Len(hs) THEN a
            ELSE go(IF Streak(hs[a], clock) > Streak(hs[j], clock)
                    THEN a ELSE j, j + 1)
    IN go(acc, i)

\* the reduce of longest_streak_all from position i on with accumulator acc:
\* lambda a, b: a if a.streak() >= b.streak() else b
reduceLongest(hs, acc, i, clock) ==
    LET RECURSIVE go(_, _)
        go(a, j) ==
            IF j > Len(hs) THEN a
            ELSE go(IF Streak(hs[a], clock) >= Streak(hs[j], clock)
                    THEN a ELSE j, j + 1)
    IN go(acc, i)

\* last: the call (op) with its arguments (index, name, periodicity), the
\* exception it raised (err), the value it returned (value: a streak, or the
\* index of the habit returned, -1 for None; found: the positions, from 1, of
\* the habits in a returned list), the size of the collection before the call
\* (n), whether the call changed the collection (changed), and whether a
\* construction ran seed_data (seeded)
NoOp == [op |-> "none", index |-> 0, name |-> "", periodicity |-> "",
         err |-> "none", value |-> 0, found |-> <<>>, n |-> 0,
         changed |-> FALSE, seeded |-> FALSE]

\* h and res while no Habit is under test
NoHabit == [name |-> "", periodicity |-> "", created_at |-> None,
            completions |-> <<>>]

\* res: the last call (op), its argument (date), completions before it
\* (before), whether the call before it was complete with the same argument
\* (twice) and completions before that one (prior), the streak returned
\* (value), the boolean returned (flag), the Habit returned (back)
NoCall == [op |-> "init", date |-> None, before |-> <<>>, twice |-> FALSE,
           prior |-> <<>>, value |-> 0, flag |-> FALSE, back |-> NoHabit]

\* clock readings: the tests' today at 10:00:00 (a Monday), and the last
\* microsecond of the day after.  One behaviour keeps one reading.
Clock == {DT(Today, 36000, 0), DT(Today + 1, 86399, 999999)}

Names == {"A", "B"}

\* periodicity arguments of add_habit and habits_by_periodicity
PeriodicityArgs == {"daily", "weekly", "monthly"}

\* date arguments of complete_habit: None (the clock is read), the day
\* before, and the most recent timestamp recorded for any habit
DateArgs ==
    {None, MinusDays(now, 1)} \cup
        {habits[i].completions[Len(habits[i].completions)] :
             i \in {j \in 1..Len(habits) : Len(habits[j].completions) > 0}}

\* index arguments: every valid one and one beyond at each end
IndexArgs == (-(Len(habits) + 1))..Len(habits)

\* HabitTracker(filename) on no file, or on a file holding an empty list
Init ==
    /\ h = NoHabit
    /\ res = NoCall
    /\ \E clock \in Clock, file \in {NoFile, save(NoFile, <<>>)} :
           /\ now = clock
           /\ habits = load(file, clock)
           /\ store = storeAfterLoad(file, clock)
           /\ fuel = IF file.exists THEN MaxOps ELSE SeedOps
           /\ last = [NoOp EXCEPT !.op = "construct",
                                  !.changed = ~file.exists,
                                  !.seeded = ~file.exists]

\* a second HabitTracker(filename) on the same file; json.load raises on a
\* file that holds no complete JSON document, and the tracker in use stays
Construct ==
    IF store.torn
    THEN /\ last' = [NoOp EXCEPT !.op = "construct",
                                 !.err = "JSONDecodeError", !.n = Len(habits)]
         /\ UNCHANGED <<habits, store, now, fuel, habitVars>>
    ELSE /\ habits' = load(store, now)
         /\ store' = storeAfterLoad(store, now)
         /\ last' = [NoOp EXCEPT !.op = "construct", !.n = Len(habits),
                                 !.changed = (habits' # habits),
                                 !.seeded = ~store.exists]
         /\ UNCHANGED <<now, fuel, habitVars>>

\* add_habit(name, periodicity)
AddHabit(name, periodicity) ==
    IF ValidPeriodicity(periodicity)
    THEN /\ fuel > 0
         /\ Len(habits) < MaxHabits
         /\ habits' = Append(habits, Habit(name, periodicity, None, <<>>, now))
         /\ store' = save(store, habits')
         /\ fuel' = fuel - 1
         /\ last' = [NoOp EXCEPT !.op = "add", !.name = name,
                                 !.periodicity = periodicity,
                                 !.n = Len(habits), !.changed = TRUE]
         /\ UNCHANGED <<now, habitVars>>
    ELSE /\ last' = [NoOp EXCEPT !.op = "add", !.name = name,
                                 !.periodicity = periodicity,
                                 !.err = "ValueError", !.n = Len(habits)]
         /\ UNCHANGED <<habits, store, now, fuel, habitVars>>

CompleteHabitShared(index, d) ==
    IF ValidIndex(Len(habits), index)
    THEN /\ fuel > 0
         /\ LET target == habits[Pos(Len(habits), index)]
            IN habits' = [i \in 1..Len(habits) |->
                             IF habits[i].completions = target.completions
                             THEN [habits[i] EXCEPT !.completions =
                                      Complete(target, IF d = None THEN now
                                                       ELSE d).completions]
                             ELSE habits[i]]
         /\ store' = save(store, habits')
         /\ fuel' = fuel - 1
         /\ last' = [NoOp EXCEPT !.op = "complete", !.index = index,
                                 !.n = Len(habits),
                                 !.changed = (habits' # habits)]
         /\ UNCHANGED <<now, habitVars>>
    ELSE /\ last' = [NoOp EXCEPT !.op = "complete", !.index = index,
                                 !.err = "IndexError", !.n = Len(habits)]
         /\ UNCHANGED <<habits, store, now, fuel, habitVars>>

\* complete_habit(index, date)
CompleteHabit(index, d) ==
    IF ValidIndex(Len(habits), index)
    THEN /\ fuel > 0
         /\ habits' = [habits EXCEPT ![Pos(Len(habits), index)] =
                           Complete(@, IF d = None THEN now ELSE d)]
         /\ store' = save(store, habits')
         /\ fuel' = fuel - 1
         /\ last' = [NoOp EXCEPT !.op = "complete", !.index = index,
                                 !.n = Len(habits),
                                 !.changed = (habits' # habits)]
         /\ UNCHANGED <<now, habitVars>>
    ELSE /\ last' = [NoOp EXCEPT !.op = "complete", !.index = index,
                                 !.err = "IndexError", !.n = Len(habits)]
         /\ UNCHANGED <<habits, store, now, fuel, habitVars>>

\* delete_habit(index)
DeleteHabit(index) ==
    IF ValidIndex(Len(habits), index)
    THEN /\ fuel > 0
         /\ habits' = DeleteAt(habits, Pos(Len(habits), index))
         /\ store' = save(store, habits')
         /\ fuel' = fuel - 1
         /\ last' = [NoOp EXCEPT !.op = "delete", !.index = index,
                                 !.n = Len(habits), !.changed = TRUE]
         /\ UNCHANGED <<now, habitVars>>
    ELSE /\ last' = [NoOp EXCEPT !.op = "delete", !.index = index,
                                 !.err = "IndexError", !.n = Len(habits)]
         /\ UNCHANGED <<habits, store, now, fuel, habitVars>>

\* habits_by_periodicity(period)
HabitsByPeriodicity(period) ==
    /\ last' = [NoOp EXCEPT !.op = "by_periodicity", !.periodicity = period,
                            !.n = Len(habits),
                            !.found = filterByPeriodicity(habits, period)]
    /\ UNCHANGED <<habits, store, now, fuel, habitVars>>

\* longest_streak_all()
LongestStreakAll ==
    /\ last' = [NoOp EXCEPT !.op = "longest_all", !.n = Len(habits),
                            !.value = IF Len(habits) = 0 THEN -1
                                      ELSE reduceLongest(habits, 1, 2, now) - 1]
    /\ UNCHANGED <<habits, store, now, fuel, habitVars>>

\* longest_streak_for(index)
LongestStreakFor(index) ==
    /\ last' = IF ValidIndex(Len(habits), index)
               THEN [NoOp EXCEPT !.op = "longest_for", !.index = index,
                                 !.n = Len(habits),
                                 !.value = Streak(habits[Pos(Len(habits),
                                                             index)], now)]
               ELSE [NoOp EXCEPT !.op = "longest_for", !.index = index,
                                 !.err = "IndexError", !.n = Len(habits)]
    /\ UNCHANGED <<habits, store, now, fuel, habitVars>>

Next ==
    \/ Construct
    \/ \E name \in Names, p \in PeriodicityArgs : AddHabit(name, p)
    \/ \E index \in IndexArgs, d \in DateArgs : CompleteHabit(index, d)
    \/ \E index \in IndexArgs : DeleteHabit(index)
    \/ \E p \in PeriodicityArgs : HabitsByPeriodicity(p)
    \/ LongestStreakAll
    \/ \E index \in IndexArgs : LongestStreakFor(index)

Spec == Init /\ [][Next]_vars

----------------------------------------------------------------------------
(* HabitTracker on a store whose writes can fail *)

\* add_habit(name, periodicity) whose self.save() raises OSError: the append
\* has run, the exception leaves add_habit
AddHabitSaveFails(name, periodicity) ==
    /\ ValidPeriodicity(periodicity)
    /\ fuel > 0
    /\ Len(habits) < MaxHabits
    /\ habits' = Append(habits, Habit(name, periodicity, None, <<>>, now))
    /\ store' \in saveFailed(store)
    /\ fuel' = fuel - 1
    /\ last' = [NoOp EXCEPT !.op = "add", !.name = name,
                            !.periodicity = periodicity, !.err = "OSError",
                            !.n = Len(habits), !.changed = TRUE]
    /\ UNCHANGED <<now, habitVars>>

\* complete_habit(index, date) whose self.save() raises OSError
CompleteHabitSaveFails(index, d) ==
    /\ ValidIndex(Len(habits), index)
    /\ fuel > 0
    /\ habits' = [habits EXCEPT ![Pos(Len(habits), index)] =
                      Complete(@, IF d = None THEN now ELSE d)]
    /\ store' \in saveFailed(store)
    /\ fuel' = fuel - 1
    /\ last' = [NoOp EXCEPT !.op = "complete", !.index = index,
                            !.err = "OSError", !.n = Len(habits),
                            !.changed = (habits' # habits)]
    /\ UNCHANGED <<now, habitVars>>

\* delete_habit(index) whose self.save() raises OSError
DeleteHabitSaveFails(index) ==
    /\ ValidIndex(Len(habits), index)
    /\ fuel > 0
    /\ habits' = DeleteAt(habits, Pos(Len(habits), index))
    /\ store' \in saveFailed(store)
    /\ fuel' = fuel - 1
    /\ last' = [NoOp EXCEPT !.op = "delete", !.index = index,
                            !.err = "OSError", !.n = Len(habits),
                            !.changed = TRUE]
    /\ UNCHANGED <<now, habitVars>>

NextFail ==
    \/ Construct
    \/ \E name \in Names, p \in PeriodicityArgs : AddHabit(name, p)
    \/ \E index \in IndexArgs, d \in DateArgs : CompleteHabit(index, d)
    \/ \E index \in IndexArgs : DeleteHabit(index)
    \/ \E p \in PeriodicityArgs : HabitsByPeriodicity(p)
    \/ LongestStreakAll
    \/ \E index \in IndexArgs : LongestStreakFor(index)
    \/ \E name \in Names, p \in PeriodicityArgs : AddHabitSaveFails(name, p)
    \/ \E index \in IndexArgs, d \in DateArgs :
           CompleteHabitSaveFails(index, d)
    \/ \E index \in IndexArgs : DeleteHabitSaveFails(index)

SpecFail == Init /\ [][NextFail]_vars

----------------------------------------------------------------------------
(* SpecHabit: one Habit object; its methods applied to bounded inputs *)

PeriodDays(p) == IF p = "daily" THEN 1 ELSE 7

\* the first and the last instant of each of the NumPeriods periods (days or
\* Monday-starting weeks) that end with the period of Today
Instants(p) ==
    UNION {{DT(Today - k * PeriodDays(p), 0, 0),
            DT(Today - k * PeriodDays(p) + PeriodDays(p) - 1, 86399, 999999)} :
               k \in 0..(NumPeriods - 1)}

\* creation timestamps of the Habit under test
CreatedChoices == {DT(Today, 36000, 0), DT(Today - 1, 86399, 999999)}

\* all sequences over S of length at most n
SeqsUpTo(S, n) == UNION {[1..k -> S] : k \in 0..n}

\* no HabitTracker is constructed in SpecHabit
TrackerIdle ==
    /\ habits = <<>>
    /\ store = NoFile
    /\ now = None
    /\ last = NoOp
    /\ fuel = 0

\* a Habit constructed with any periodicity, creation time and completions
\* list (historical data: any order, several entries per period)
HabitInit ==
    /\ TrackerIdle
    /\ \E p \in Periodicities, c \in CreatedChoices :
           \E cs \in SeqsUpTo(Instants(p), MaxLen) :
               h = Habit("Exercise", p, c, cs, c)
    /\ res = NoCall

\* h.complete(d)
HabitComplete(d) ==
    /\ Len(h.completions) < MaxLen
    /\ h' = Complete(h, d)
    /\ UNCHANGED trackerVars
    /\ res' = [NoCall EXCEPT
                   !.op = "complete", !.date = d, !.before = h.completions,
                   !.twice = (res.op = "complete" /\ res.date = d),
                   !.prior = IF res.op = "complete" /\ res.date = d
                             THEN res.before ELSE <<>>]

\* h.streak(reference)
HabitStreak(reference) ==
    /\ UNCHANGED <<h, trackerVars>>
    /\ res' = [NoCall EXCEPT !.op = "streak", !.date = reference,
                             !.value = Streak(h, reference)]

\* h.completed_in_period(d)
HabitCompletedInPeriod(d) ==
    /\ UNCHANGED <<h, trackerVars>>
    /\ res' = [NoCall EXCEPT !.op = "in_period", !.date = d,
                             !.flag = completed_in_period(h, d)]

\* Habit.from_dict(h.to_dict())
HabitRoundTrip ==
    /\ UNCHANGED <<h, trackerVars>>
    /\ res' = [NoCall EXCEPT !.op = "roundtrip",
                             !.back = from_dict(to_dict(h))]

HabitNext ==
    \/ \E d \in Instants(h.periodicity) : HabitComplete(d)
    \/ \E r \in Instants(h.periodicity) : HabitStreak(r)
    \/ HabitRoundTrip

SpecHabit == HabitInit /\ [][HabitNext]_vars

\* the period query applied to a Habit holding any completions list
HabitPeriodNext ==
    \E d \in Instants(h.periodicity) : HabitCompletedInPeriod(d)

SpecHabitPeriod == HabitInit /\ [][HabitPeriodNext]_vars

----------------------------------------------------------------------------
(* Properties of Habit, checked under SpecHabit *)

\* the Monday-starting week a datetime lies in: ordinal 1 (0001-01-01) is a
\* Monday, so the weeks are the ordinals 1..7, 8..14, ...
WeekIndex(dt) == (dt.ord - 1) \div 7

\* a and b lie in the same period of a habit with periodicity p
SamePeriod(p, a, b) ==
    IF p = "daily" THEN a.ord = b.ord ELSE WeekIndex(a) = WeekIndex(b)

\* some completion of cs lies in the period of d
PeriodTaken(p, cs, d) == \E i \in 1..Len(cs) : SamePeriod(p, cs[i], d)

\* C1: complete(date) appends date at the end of completions if and only if
\* no existing completion lies in the period of date (Daily: same calendar
\* date; Weekly: same Monday-starting week); otherwise completions is left
\* exactly as it was.
C1_CompleteAppendsIffPeriodFree ==
    res.op = "complete" =>
        h.completions =
            IF PeriodTaken(h.periodicity, res.before, res.date)
            THEN res.before
            ELSE Append(res.before, res.date)

\* a Weekly habit completed on a Sunday whose week already holds a Monday
\* completion: the call left completions as it was
C1_Witness ==
    /\ res.op = "complete"
    /\ h.periodicity = "weekly"
    /\ res.before # <<>>
    /\ h.completions = res.before
    /\ res.date \notin {res.before[i] : i \in 1..Len(res.before)}

\* C2 as stated: two consecutive complete(date) calls leave completions one
\* longer than before the two calls.
C2_TwiceAddsExactlyOne ==
    (res.op = "complete" /\ res.twice) =>
        Len(h.completions) = Len(res.prior) + 1

\* C2 amended: two consecutive complete(date) calls add one completion when
\* no completion lay in the period of date before the first call and none
\* when one did; the second call never changes completions.
C2_TwiceAddsAtMostOne ==
    (res.op = "complete" /\ res.twice) =>
        /\ Len(h.completions) =
               Len(res.prior)
               + (IF PeriodTaken(h.periodicity, res.prior, res.date)
                  THEN 0 ELSE 1)
        /\ h.completions = res.before

\* after the second of two complete(date) calls of which the first appended
C2_Witness ==
    /\ res.op = "complete"
    /\ res.twice
    /\ res.prior # <<>>
    /\ res.before = Append(res.prior, res.date)
    /\ h.completions = res.before

\* some completion of cs has calendar date (ordinal) d
DayDone(cs, d) == \E i \in 1..Len(cs) : cs[i].ord = d

\* length of the maximal run of consecutive completed calendar dates that
\* ends at the date of r; 0 when that date has no completion
DailyRun(cs, r) ==
    IF ~DayDone(cs, r.ord) THEN 0
    ELSE CHOOSE k \in 1..Len(cs) :
             /\ \A j \in 0..(k - 1) : DayDone(cs, r.ord - j)
             /\ ~DayDone(cs, r.ord - k)

\* C3: for a Daily habit streak(reference) is 0 when no completion has the
\* calendar date of reference, and otherwise the length of the maximal run of
\* consecutive completed calendar dates ending at the date of reference.
C3_DailyStreakIsRunLength ==
    (res.op = "streak" /\ h.periodicity = "daily") =>
        res.value = DailyRun(h.completions, res.date)

\* completions on D, D-1 and D-3 (gap at D-2), reference D: streak 2
C3_Witness ==
    /\ res.op = "streak"
    /\ h.periodicity = "daily"
    /\ res.value = 2
    /\ DayDone(h.completions, res.date.ord - 3)
    /\ ~DayDone(h.completions, res.date.ord - 2)

\* some completion of cs lies in week w
WeekDone(cs, w) == \E i \in 1..Len(cs) : WeekIndex(cs[i]) = w

\* number of consecutive completed Monday-starting weeks ending at the week
\* of r; 0 when that week has no completion
WeeklyRun(cs, r) ==
    IF ~WeekDone(cs, WeekIndex(r)) THEN 0
    ELSE CHOOSE k \in 1..Len(cs) :
             /\ \A j \in 0..(k - 1) : WeekDone(cs, WeekIndex(r) - j)
             /\ ~WeekDone(cs, WeekIndex(r) - k)

\* C4: for a Weekly habit streak(reference) is 0 when no completion lies in
\* the Monday-starting week of reference, and otherwise the number of
\* consecutive completed weeks ending at that week; any other reference of
\* the same week gives the same streak.
C4_WeeklyStreakIsRunLength ==
    (res.op = "streak" /\ h.periodicity = "weekly") =>
        /\ res.value = WeeklyRun(h.completions, res.date)
        /\ \A r \in Instants("weekly") :
               WeekIndex(r) = WeekIndex(res.date) =>
                   Streak(h, r) = res.value

\* this week completed on its Sunday, last week on its Monday, a gap two
\* weeks ago, reference on the Monday of this week: streak 2
C4_Witness ==
    /\ res.op = "streak"
    /\ h.periodicity = "weekly"
    /\ res.value = 2
    /\ weekday(res.date.ord) = 0
    /\ \E i \in 1..Len(h.completions) :
           /\ WeekIndex(h.completions[i]) = WeekIndex(res.date)
           /\ weekday(h.completions[i].ord) = 6
    /\ WeekDone(h.completions, WeekIndex(res.date) - 3)
    /\ ~WeekDone(h.completions, WeekIndex(res.date) - 2)

\* C8: from_dict(to_dict(h)) has the name, periodicity, created_at and the
\* same ordered list of completions as h: nothing is deduplicated or
\* reordered.
C8_DictRoundTrip ==
    res.op = "roundtrip" =>
        /\ res.back.name = h.name
        /\ res.back.periodicity = h.periodicity
        /\ res.back.created_at = h.created_at
        /\ res.back.completions = h.completions

\* a round trip of a habit holding two completions of one period, in
\* non-chronological order, with and without microseconds
C8_Witness ==
    /\ res.op = "roundtrip"
    /\ Len(h.completions) = 3
    /\ SamePeriod(h.periodicity, h.completions[1], h.completions[2])
    /\ h.completions[1] # h.completions[2]
    /\ h.completions[1].ord > h.completions[3].ord
    /\ h.completions[1].us # 0
    /\ h.completions[2].us = 0
    /\ res.back.completions = h.completions

----------------------------------------------------------------------------
(* Properties of HabitTracker, checked under Spec *)

\* the calls that take an index
IndexedOps == {"complete", "delete", "longest_for"}

\* C5: on a collection of n habits complete_habit, delete_habit and
\* longest_streak_for raise IndexError for every index < 0 and every
\* index >= n, and then leave the collection and the store unchanged.
C5_BadIndexFails ==
    [][(last'.op \in IndexedOps
        /\ (last'.index < 0 \/ last'.index >= Len(habits)))
         => (last'.err = "IndexError" /\ habits' = habits /\ store' = store)]_vars

\* C6: after construction and after every add_habit, complete_habit and
\* delete_habit the file holds exactly the dicts of the whole collection, in
\* order.
C6_StoreIsWholeCollection ==
    /\ store.exists
    /\ Len(store.data) = Len(habits)
    /\ \A i \in 1..Len(habits) : store.data[i] = to_dict(habits[i])

\* a complete_habit call that found the period already completed, on a
\* collection of two habits
C6_Witness ==
    /\ last.op = "complete"
    /\ last.err = "none"
    /\ ~last.changed
    /\ Len(habits) = 2
    /\ Len(store.data) = 2

\* C7: a tracker constructed on the store of another has the same habits in
\* the same order, each with the same name, periodicity, created_at and
\* completions; a stored empty collection gives an empty collection.
C7_ReloadGivesSameCollection ==
    [][last'.op = "construct" =>
          /\ Len(habits') = Len(habits)
          /\ \A i \in 1..Len(habits) :
                 /\ habits'[i].name = habits[i].name
                 /\ habits'[i].periodicity = habits[i].periodicity
                 /\ habits'[i].created_at = habits[i].created_at
                 /\ habits'[i].completions = habits[i].completions]_vars

\* a tracker constructed on a store to which add_habit, on an empty
\* collection, had written one habit
C7_Witness ==
    /\ last.op = "construct"
    /\ last.n = 1
    /\ Len(habits) = 1
    /\ habits[1].completions = <<>>
    /\ fuel = MaxOps - 1

\* C9: longest_streak_all returns None on an empty collection, and otherwise
\* the habit of lowest index among those whose streak is the maximum.
C9_LongestIsFirstMaximum ==
    last.op = "longest_all" =>
        IF habits = <<>> THEN last.value = -1
        ELSE /\ last.value \in 0..(Len(habits) - 1)
             /\ \A j \in 1..Len(habits) :
                    Streak(habits[j], now) <= Streak(habits[last.value + 1], now)
             /\ \A j \in 1..last.value :
                    Streak(habits[j], now) < Streak(habits[last.value + 1], now)

\* two habits sharing the maximum streak, which is not 0: the first returned
C9_Witness ==
    /\ last.op = "longest_all"
    /\ Len(habits) = 2
    /\ Streak(habits[1], now) = Streak(habits[2], now)
    /\ Streak(habits[1], now) > 0
    /\ last.value = 0

\* C10: add_habit with periodicity daily or weekly appends a habit with that
\* name and periodicity and no completions, the earlier habits staying as
\* they were; with another periodicity it raises ValueError and leaves the
\* collection and the store unchanged.
C10_AddAppendsOrRejects ==
    [][last'.op = "add" =>
          IF last'.periodicity \in {"daily", "weekly"}
          THEN /\ last'.err = "none"
               /\ Len(habits') = Len(habits) + 1
               /\ SubSeq(habits', 1, Len(habits)) = habits
               /\ habits'[Len(habits')].name = last'.name
               /\ habits'[Len(habits')].periodicity = last'.periodicity
               /\ habits'[Len(habits')].completions = <<>>
          ELSE /\ last'.err = "ValueError"
               /\ habits' = habits
               /\ store' = store]_vars

\* add_habit rejected on a collection that holds a habit
C10_Witness ==
    /\ last.op = "add"
    /\ last.err = "ValueError"
    /\ last.periodicity = "monthly"
    /\ Len(habits) >= 1

\* C11: delete_habit(index) with index in 0..n-1 removes exactly the habit at
\* that position: the collection is one shorter, the habits before index keep
\* their position, every later habit moves down by one, and each remaining
\* habit is as it was.
C11_DeleteRemovesExactlyThatHabit ==
    [][(last'.op = "delete" /\ last'.index >= 0 /\ last'.index < Len(habits))
         => /\ last'.err = "none"
            /\ Len(habits') = Len(habits) - 1
            /\ \A i \in 1..Len(habits') :
                   habits'[i] = IF i <= last'.index THEN habits[i]
                                ELSE habits[i + 1]]_vars

\* delete_habit(0) on the two habits A, B: B is left, at index 0
C11_Witness ==
    /\ last.op = "delete"
    /\ last.err = "none"
    /\ last.index = 0
    /\ last.n = 2
    /\ Len(habits) = 1
    /\ habits[1].name = "B"
    /\ habits[1].completions # <<>>

\* C12: habits_by_periodicity(period) returns exactly the habits whose
\* periodicity equals period, in collection order, and changes neither the
\* collection nor the store; for a period other than daily and weekly it
\* returns an empty list and raises nothing.
C12_FilterIsMatchingSubsequence ==
    [][last'.op = "by_periodicity" =>
          /\ last'.err = "none"
          /\ habits' = habits
          /\ store' = store
          /\ \A k \in 1..(Len(last'.found) - 1) :
                 last'.found[k] < last'.found[k + 1]
          /\ {last'.found[k] : k \in 1..Len(last'.found)} =
                 {i \in 1..Len(habits) :
                      habits[i].periodicity = last'.periodicity}
          /\ (last'.periodicity \notin {"daily", "weekly"} =>
                  last'.found = <<>>)]_vars

\* the daily habits asked of a collection holding a weekly habit, then a
\* daily one: the second habit alone is returned
C12_Witness ==
    /\ last.op = "by_periodicity"
    /\ last.periodicity = "daily"
    /\ Len(habits) = 2
    /\ habits[1].periodicity = "weekly"
    /\ last.found = <<2>>

\* the habits of hs with periodicity p
CountOf(hs, p) == Cardinality({i \in 1..Len(hs) : hs[i].periodicity = p})

\* C13: a construction that finds no file yields exactly 5 habits, 3 daily and
\* 2 weekly, each with a non-empty completion history, and has written them to
\* the file; a second construction on that file loads those same 5 habits and
\* does not seed again.
C13_SeedsFiveHabitsOnce ==
    [][(last.op = "construct" /\ last.seeded) =>
          /\ Len(habits) = 5
          /\ CountOf(habits, "daily") = 3
          /\ CountOf(habits, "weekly") = 2
          /\ \A i \in 1..Len(habits) : habits[i].completions # <<>>
          /\ store.exists
          /\ Len(store.data) = 5
          /\ \A i \in 1..5 : store.data[i].name = habits[i].name
          /\ (last'.op = "construct" =>
                  (~last'.seeded /\ habits' = habits /\ store' = store))]_vars

\* a second construction on the file that a seeding construction wrote
C13_Witness ==
    /\ last.op = "construct"
    /\ ~last.seeded
    /\ ~last.changed
    /\ last.n = 5
    /\ Len(habits) = 5
    /\ habits[1].name = "Exercise"
    /\ habits[5].name = "Clean House"

\* the period of dt for a habit with periodicity p, as a number
PeriodIndex(p, dt) == IF p = "daily" THEN dt.ord ELSE WeekIndex(dt)

\* the periods in which hb holds a completion
PeriodsOf(hb) ==
    {PeriodIndex(hb.periodicity, hb.completions[i]) :
         i \in 1..Len(hb.completions)}

\* C14: after a seeding construction the most recent completion of each of
\* the 5 habits lies in the period (day or Monday-starting week) of the
\* construction time, and its completed periods are consecutive up to there.
C14_SeedHistoryEndsNow ==
    (last.op = "construct" /\ last.seeded) =>
        \A i \in 1..Len(habits) :
            /\ PeriodIndex(habits[i].periodicity, now) \in PeriodsOf(habits[i])
            /\ \A a \in PeriodsOf(habits[i]) :
                   /\ a <= PeriodIndex(habits[i].periodicity, now)
                   /\ \A k \in a..PeriodIndex(habits[i].periodicity, now) :
                          k \in PeriodsOf(habits[i])

\* a and b have the same name, periodicity and created_at
SameIdentity(a, b) ==
    /\ a.name = b.name
    /\ a.periodicity = b.periodicity
    /\ a.created_at = b.created_at

\* C15: every habit of the collection has periodicity daily or weekly, and
\* no call, successful or failing, changes the name, periodicity or
\* created_at of a habit that stays in the collection.
C15_PeriodicityValidIdentityKept ==
    [][/\ \A i \in 1..Len(habits) : habits[i].periodicity \in {"daily", "weekly"}
       /\ \A i \in 1..Len(habits') :
              habits'[i].periodicity \in {"daily", "weekly"}
       /\ IF last'.op = "delete" /\ last'.err = "none"
          THEN \E p \in 1..Len(habits) :
                   /\ Len(habits') = Len(habits) - 1
                   /\ \A i \in 1..Len(habits') :
                          SameIdentity(habits'[i],
                                       habits[IF i < p THEN i ELSE i + 1])
          ELSE /\ Len(habits') >= Len(habits)
               /\ \A i \in 1..Len(habits) :
                      SameIdentity(habits'[i], habits[i])]_vars

\* a complete_habit call that appended to the second of two habits, the
\* first being weekly
C15_Witness ==
    /\ last.op = "complete"
    /\ last.changed
    /\ last.index = 1
    /\ Len(habits) = 2
    /\ habits[1].periodicity = "weekly"
    /\ habits[2].completions # <<>>
    /\ habits[2].created_at = now

\* the calendar date (ordinal) whose midnight starts the period of d: the
\* date of d for a daily habit, the Monday of the week of d for a weekly one
PeriodStartDay(p, d) == IF p = "daily" THEN d.ord ELSE WeekIndex(d) * 7 + 1

\* C16: completed_in_period(date) is true if and only if some completion is
\* at or after midnight of the first day of the period of date (the date
\* itself for Daily, the Monday of its week for Weekly): a completion of any
\* later period makes it true, a completion before that midnight never does.
C16_CompletedInPeriodIsAtOrAfterStart ==
    res.op = "in_period" =>
        /\ period_start(h, res.date) =
               DT(PeriodStartDay(h.periodicity, res.date), 0, 0)
        /\ res.flag =
               \E i \in 1..Len(h.completions) :
                   h.completions[i].ord >=
                       PeriodStartDay(h.periodicity, res.date)

\* true although the period of date holds no completion: one completion
\* lies in a later period, another before the period start
C16_Witness ==
    /\ res.op = "in_period"
    /\ res.flag
    /\ ~PeriodTaken(h.periodicity, h.completions, res.date)
    /\ \E i \in 1..Len(h.completions) :
           h.completions[i].ord < PeriodStartDay(h.periodicity, res.date)

\* C17: when the save step of add_habit, complete_habit or delete_habit
\* raises a storage error, the data file still holds what the last successful
\* save wrote (the file held a complete document before the call, and holds
\* the same document after it).
C17_FailedSaveKeepsLastSave ==
    [][last'.err = "OSError" /\ ~store.torn => store' = store]_vars

\* the position (from 1) of the habit a valid index designates among n
TargetOf(n, index) == ((index + n) % n) + 1

\* C18: complete_habit(index, date) with a valid index changes at most the
\* completions of the habit at that index: the collection keeps its length
\* and order, every other habit is unchanged (seeded or added habits share
\* no completions list), and the habit itself keeps name, periodicity and
\* created_at.
C18_CompleteTouchesOnlyItsHabit ==
    [][last'.op = "complete" /\ last'.err = "none" =>
           /\ Len(habits') = Len(habits)
           /\ \A i \in 1..Len(habits) :
                  IF i = TargetOf(Len(habits), last'.index)
                  THEN SameIdentity(habits[i], habits'[i])
                  ELSE habits'[i] = habits[i]]_vars

\* a completion was recorded for one habit while another habit still holds
\* the completions the first one had before the call
C18_Witness ==
    /\ last.op = "complete"
    /\ last.err = "none"
    /\ last.changed
    /\ \E i, j \in 1..Len(habits) :
           /\ i = TargetOf(Len(habits), last.index)
           /\ j # i
           /\ Len(habits[i].completions) = Len(habits[j].completions) + 1
           /\ SubSeq(habits[i].completions, 1, Len(habits[j].completions)) =
                  habits[j].completions

\* hb with its completions rearranged by the permutation f of the positions
Permuted(hb, f) ==
    [hb EXCEPT !.completions = [i \in 1..Len(hb.completions) |->
                                    hb.completions[f[i]]]]

\* hb with one completion per completed period (the earliest), in
\* chronological order
SortedDeduplicated(hb) ==
    LET cs == hb.completions
        firsts == {i \in 1..Len(cs) :
                      \A j \in 1..Len(cs) :
                          SamePeriod(hb.periodicity, cs[i], cs[j]) =>
                              \/ DtGt(cs[j], cs[i])
                              \/ (cs[j] = cs[i] /\ i <= j)}
        order == CHOOSE s \in [1..Cardinality(firsts) -> firsts] :
                     \A a, b \in 1..Cardinality(firsts) :
                         a < b => DtGt(cs[s[b]], cs[s[a]])
    IN [hb EXCEPT !.completions = [k \in 1..Cardinality(firsts) |->
                                       cs[order[k]]]]

\* C19: streak(reference) depends only on the set of completed periods: it
\* is the same for every permutation of completions, for completions with
\* one more entry inside an already completed period, and for the sorted,
\* deduplicated completions.
C19_StreakDependsOnPeriodSet ==
    res.op = "streak" =>
        /\ \A f \in Permutations(1..Len(h.completions)) :
               Streak(Permuted(h, f), res.date) = res.value
        /\ \A extra \in Instants(h.periodicity) :
               PeriodTaken(h.periodicity, h.completions, extra) =>
                   Streak([h EXCEPT !.completions = Append(@, extra)],
                          res.date) = res.value
        /\ Streak(SortedDeduplicated(h), res.date) = res.value

\* a streak of 2 or more computed from completions that are out of
\* chronological order and hold two entries of one period
C19_Witness ==
    /\ res.op = "streak"
    /\ res.value >= 2
    /\ \E i, j \in 1..Len(h.completions) :
           i < j /\ DtGt(h.completions[i], h.completions[j])
    /\ \E i, j \in 1..Len(h.completions) :
           i < j /\ SamePeriod(h.periodicity, h.completions[i],
                               h.completions[j])
    /\ SortedDeduplicated(h).completions # h.completions

\* C20: in every state reached from a freshly seeded tracker or from an empty
\* stored collection by add_habit, complete_habit with any date and
\* delete_habit, no habit holds two completions in the same period (calendar
\* day for daily, Monday-starting week for weekly).
C20_OneCompletionPerPeriod ==
    \A k \in 1..Len(habits) :
        \A i, j \in 1..Len(habits[k].completions) :
            i # j => ~SamePeriod(habits[k].periodicity,
                                 habits[k].completions[i],
                                 habits[k].completions[j])

\* complete_habit left a seeded weekly habit as it was, because the week of
\* the date was taken, while another habit holds more completions than it
C20_Witness ==
    /\ last.op = "complete"
    /\ last.err = "none"
    /\ ~last.changed
    /\ LET hb == habits[TargetOf(Len(habits), last.index)]
       IN /\ hb.periodicity = "weekly"
          /\ Len(hb.completions) = SeedWeeks
          /\ \E k \in 1..Len(habits) :
                 Len(habits[k].completions) > Len(hb.completions)

\* the Habit as it was before the complete call that res records
BeforeComplete == [h EXCEPT !.completions = res.before]

\* C21: immediately after complete(d), streak(d) is at least 1, whether the
\* call appended d or left completions alone because the period of d was
\* taken; and for every fixed reference, streak(reference) after the call is
\* not lower than it was before the call.
C21_CompleteAnchorsAndNeverLowersStreak ==
    res.op = "complete" =>
        /\ Streak(h, res.date) >= 1
        /\ \A reference \in Instants(h.periodicity) :
               Streak(h, reference) >= Streak(BeforeComplete, reference)

\* complete(d) appended d between two completed periods, before any later
\* completion: the streak at d is 2 or more, and the streak at a later
\* reference rose by more than one period
C21_Witness ==
    /\ res.op = "complete"
    /\ h.completions = Append(res.before, res.date)
    /\ Streak(h, res.date) >= 2
    /\ \E reference \in Instants(h.periodicity) :
           /\ reference.ord > res.date.ord
           /\ Streak(BeforeComplete, reference) >= 1
           /\ Streak(h, reference) > Streak(BeforeComplete, reference) + 1

====
